---- MODULE Spec2Model ----
(***************************************************************************)
(* Navio server: speaker attribution of a transcript                       *)
(* (Diarization.map_transcription_to_diarization, utils/diarization_utils) *)
(* and the upload handler (FileController.process_file,                    *)
(* controllers/file_controller).                                           *)
(*                                                                         *)
(* Times are seconds in the source (Python floats).  The code only takes   *)
(* max, min, one difference and compares with <, so times and the          *)
(* tolerance are modelled as integer ticks 0..MaxTime and 0..MaxTol (a     *)
(* float difference has the sign of the exact one; NaN is left out).       *)
(* The tolerance is never negative, as the interface documents it.         *)
(***************************************************************************)
EXTENDS Integers, Sequences, FiniteSets, TLC

\* ---------------------------------------------------------------- bounds
MaxT == 2        \* longest transcription list (inputs on the coarse spans)
MaxD == 2        \* longest diarization list (inputs on the coarse spans)
MaxTime == 2     \* largest tick of a start or an end (inputs on the full grid)
MaxTol == 1      \* largest tolerance, in ticks
MaxFiles == 3    \* most files in one upload request

VARIABLES
    \* map_transcription_to_diarization
    transcription,       \* argument: list of {start, end, text}
    diarization,         \* argument: list of {start, end, speaker}
    tolerance,           \* argument
    pc,                  \* "align" (first loop), "merge" (second loop), "done"
    ti,                  \* position of the first loop in transcription
    unified_transcript,  \* the list the first loop appends to
    origin,              \* origin[k] = <<i, j>>: unified_transcript[k] was appended for
                         \* transcription[i] and diarization[j] (j = 0: the UNKNOWN branch)
    attributed,          \* unified_transcript as the first loop left it
    mi,                  \* position of the second loop in unified_transcript
    merged_transcript,   \* list of references (indices) to dicts of unified_transcript
    raised,              \* exception the call ended with, "none" if it has raised nothing
    result,              \* returned list, <<>> until the return
    \* process_file
    files,               \* argument: file-name extensions of the uploaded files
    fi,                  \* position of the loop in files
    media_results,       \* local: Unbound, or [of |-> i]: the results computed from files[i]
    store_calls,         \* calls of elastic_service.store_in_elastic made so far
    mail_tasks,          \* background tasks added so far
    results,             \* local list `results`
    pf_pc,               \* "loop", "returned", "http500"
    response             \* returned list, <<>> until the return

dvars == <<transcription, diarization, tolerance, pc, ti, unified_transcript, origin,
           attributed, mi, merged_transcript, raised, result>>
fvars == <<files, fi, media_results, store_calls, mail_tasks, results, pf_pc, response>>
vars == <<dvars, fvars>>

\* ------------------------------------------------ inputs of the alignment
UNKNOWN == "UNKNOWN"
Speakers == {"S1", "S2"}
Times == 0..MaxTime
Tolerances == 0..MaxTol
Letters == <<"a", "b", "c", "d", "e", "f", "g", "h">>
\* the text of the i-th transcription segment: pairwise different texts
TextOf(i) == Letters[((i - 1) % Len(Letters)) + 1]
\* every start/end pair, end < start included: the code accepts any dict
Spans == Times \X Times
\* a coarse choice of spans for the longer lists: overlapping, touching and nested
CoarseSpans == {<<0, 1>>, <<1, 2>>, <<0, 2>>}
SeqsUpTo(S, n) == UNION {[1..k -> S] : k \in 0..n}

Max(a, b) == IF a >= b THEN a ELSE b
Min(a, b) == IF a <= b THEN a ELSE b

\* max(dia['start'], trans_start) - min(dia['end'], trans_end)
Gap(dia, trans) == Max(dia.start, trans.start) - Min(dia.end, trans.end)

\* variant: the tolerance is ignored, only a true overlap is admitted
SoftMatchStrictOverlap(dia, trans, tol) == Gap(dia, trans) < 0

\* the condition of the list comprehension `overlapping_segments`
SoftMatch(dia, trans, tol) == Gap(dia, trans) < tol

\* variant: overlap_start <= overlap_end
HardOverlapOrTouch(dia, trans) == Max(dia.start, trans.start) <= Min(dia.end, trans.end)

\* overlap_start < overlap_end
HardOverlap(dia, trans) == Max(dia.start, trans.start) < Min(dia.end, trans.end)

\* positions in dia_list of the elements of overlapping_segments, in list order
RECURSIVE OverlappingFrom(_, _, _, _)
OverlappingFrom(j, dia_list, trans, tol) ==
    IF j > Len(dia_list) THEN <<>>
    ELSE (IF SoftMatch(dia_list[j], trans, tol) THEN <<j>> ELSE <<>>)
         \o OverlappingFrom(j + 1, dia_list, trans, tol)

\* variant: the candidates are taken in the order of their start times
RECURSIVE InsertByStart(_, _, _)
InsertByStart(j, js, dia_list) ==
    IF js = <<>> THEN <<j>>
    ELSE IF dia_list[j].start < dia_list[Head(js)].start THEN <<j>> \o js
    ELSE <<Head(js)>> \o InsertByStart(j, Tail(js), dia_list)
RECURSIVE SortByStart(_, _)
SortByStart(js, dia_list) ==
    IF js = <<>> THEN <<>>
    ELSE InsertByStart(Head(js), SortByStart(Tail(js), dia_list), dia_list)
OverlappingSegmentsByStart(dia_list, trans, tol) ==
    SortByStart(OverlappingFrom(1, dia_list, trans, tol), dia_list)

OverlappingSegments(dia_list, trans, tol) == OverlappingFrom(1, dia_list, trans, tol)

UnknownSegment(trans) ==
    [start |-> trans.start, end |-> trans.end, speaker |-> UNKNOWN, text |-> trans.text]

OverlapSegment(dia, trans) ==
    [start |-> Max(dia.start, trans.start), end |-> Min(dia.end, trans.end),
     speaker |-> dia.speaker, text |-> trans.text]

\* the inner loop `for dia in overlapping_segments`: the positions of ov, from its
\* k-th on, whose diarization segment passes `if overlap_start < overlap_end`
RECURSIVE EmittedFrom(_, _, _, _)
EmittedFrom(k, ov, dia_list, trans) ==
    IF k > Len(ov) THEN <<>>
    ELSE (IF HardOverlap(dia_list[ov[k]], trans) THEN <<ov[k]>> ELSE <<>>)
         \o EmittedFrom(k + 1, ov, dia_list, trans)

\* variant: a segment whose candidates all fail the hard test falls back to UNKNOWN
SegmentOriginsUnknownFallback(trans, dia_list, tol) ==
    LET ov == OverlappingSegments(dia_list, trans, tol)
        js == EmittedFrom(1, ov, dia_list, trans)
    IN  IF js = <<>> THEN <<0>> ELSE js

\* variant: a segment without candidates is dropped
SegmentOriginsDropsUnmatched(trans, dia_list, tol) ==
    EmittedFrom(1, OverlappingSegments(dia_list, trans, tol), dia_list, trans)

\* variant: the soft and the hard test collapsed into one, every candidate is emitted
SegmentOriginsSoftOnly(trans, dia_list, tol) ==
    LET ov == OverlappingSegments(dia_list, trans, tol)
    IN  IF ov = <<>> THEN <<0>> ELSE ov

\* one pass of the body of `for trans in transcription`: the diarization positions the
\* pass appends a dict for, <<0>> standing for the UNKNOWN branch
SegmentOrigins(trans, dia_list, tol) ==
    LET ov == OverlappingSegments(dia_list, trans, tol)
    IN  IF ov = <<>> THEN <<0>> ELSE EmittedFrom(1, ov, dia_list, trans)

\* the dicts that pass appends
AlignSegment(trans, dia_list, tol) ==
    LET js == SegmentOrigins(trans, dia_list, tol)
    IN  [k \in 1..Len(js) |->
            IF js[k] = 0 THEN UnknownSegment(trans)
            ELSE OverlapSegment(dia_list[js[k]], trans)]

\* the whole first loop, as a function of the arguments
RECURSIVE AlignFrom(_, _, _, _)
AlignFrom(i, trans_list, dia_list, tol) ==
    IF i > Len(trans_list) THEN <<>>
    ELSE AlignSegment(trans_list[i], dia_list, tol) \o AlignFrom(i + 1, trans_list, dia_list, tol)
Align(trans_list, dia_list, tol) == AlignFrom(1, trans_list, dia_list, tol)

\* variant: an UNKNOWN segment is folded into the turn before it
SameSpeakerOrUnknown(seg, last) == seg.speaker = last.speaker \/ seg.speaker = UNKNOWN

\* `merged_transcript and seg['speaker'] == merged_transcript[-1]['speaker']`
SameSpeaker(seg, last) == seg.speaker = last.speaker

\* merged_transcript[-1]['end'] = seg['end']; merged_transcript[-1]['text'] += " " + seg['text']
Extend(last, seg) == [last EXCEPT !.end = seg.end, !.text = @ \o " " \o seg.text]

\* the dicts merged_transcript refers to
Turns == [k \in 1..Len(merged_transcript) |-> unified_transcript[merged_transcript[k]]]

\* ----------------------------------------------------------- the alignment
TransList(sp) ==
    [i \in 1..Len(sp) |-> [start |-> sp[i][1], end |-> sp[i][2], text |-> TextOf(i)]]
DiaList(sp) ==
    [j \in 1..Len(sp) |-> [start |-> sp[j][1][1], end |-> sp[j][1][2], speaker |-> sp[j][2]]]

\* The arguments of a call.  Either at most one transcription segment against at most
\* two diarization segments with every span of the grid, or lists of up to MaxT and MaxD
\* segments on the coarse spans.
Arguments ==
    \/ /\ \E sp \in SeqsUpTo(Spans, 1) : transcription = TransList(sp)
       /\ \E sp \in SeqsUpTo(Spans \X Speakers, 2) : diarization = DiaList(sp)
    \/ /\ \E sp \in SeqsUpTo(CoarseSpans, MaxT) : transcription = TransList(sp)
       /\ \E sp \in SeqsUpTo(CoarseSpans \X Speakers, MaxD) : diarization = DiaList(sp)

DInit ==
    /\ Arguments
    /\ tolerance \in Tolerances
    /\ pc = "align"
    /\ ti = 1
    /\ unified_transcript = <<>>
    /\ origin = <<>>
    /\ attributed = <<>>
    /\ mi = 1
    /\ merged_transcript = <<>>
    /\ raised = "none"
    /\ result = <<>>

\* one pass of `for trans in transcription`
AlignStep ==
    /\ UNCHANGED fvars
    /\ pc = "align"
    /\ ti <= Len(transcription)
    /\ LET trans == transcription[ti]
           js == SegmentOrigins(trans, diarization, tolerance)
       IN  /\ unified_transcript' =
                  unified_transcript \o AlignSegment(trans, diarization, tolerance)
           /\ origin' = origin \o [k \in 1..Len(js) |-> <<ti, js[k]>>]
    /\ ti' = ti + 1
    /\ UNCHANGED <<transcription, diarization, tolerance, pc, attributed, mi,
                   merged_transcript, raised, result>>

\* the first loop is exhausted; the second begins with merged_transcript = []
AlignDone ==
    /\ UNCHANGED fvars
    /\ pc = "align"
    /\ ti > Len(transcription)
    /\ pc' = "merge"
    /\ attributed' = unified_transcript
    /\ mi' = 1
    /\ merged_transcript' = <<>>
    /\ UNCHANGED <<transcription, diarization, tolerance, ti, unified_transcript, origin,
                   raised, result>>

\* one pass of `for seg in unified_transcript`.  merged_transcript holds the very dicts
\* of unified_transcript, so extending its last element writes through to that dict.
MergeStep ==
    /\ UNCHANGED fvars
    /\ pc = "merge"
    /\ mi <= Len(unified_transcript)
    /\ LET seg == unified_transcript[mi]
           n == Len(merged_transcript)
       IN  IF n > 0 /\ SameSpeaker(seg, unified_transcript[merged_transcript[n]])
           THEN /\ unified_transcript' =
                       [unified_transcript EXCEPT
                           ![merged_transcript[n]] = Extend(@, seg)]
                /\ UNCHANGED merged_transcript
           ELSE /\ merged_transcript' = Append(merged_transcript, mi)
                /\ UNCHANGED unified_transcript
    /\ mi' = mi + 1
    /\ UNCHANGED <<transcription, diarization, tolerance, pc, ti, origin, attributed,
                   raised, result>>

\* return merged_transcript
Return ==
    /\ UNCHANGED fvars
    /\ pc = "merge"
    /\ mi > Len(unified_transcript)
    /\ pc' = "done"
    /\ result' = Turns
    /\ UNCHANGED <<transcription, diarization, tolerance, ti, unified_transcript, origin,
                   attributed, mi, merged_transcript, raised>>

\* ------------------------------------------------------------ process_file
\* valid_audio_video_extensions
ValidAudioVideoExtensions == {".mp3", ".mp4", ".avi"}
\* os.path.splitext(file.filename)[1].lower() of the uploaded files
Extensions == ValidAudioVideoExtensions \cup {".pdf", ".txt"}

\* media_results before its first assignment
Unbound == [of |-> 0]

FInit ==
    /\ files \in SeqsUpTo(Extensions, MaxFiles)
    /\ fi = 1
    /\ media_results = Unbound
    /\ store_calls = <<>>
    /\ mail_tasks = <<>>
    /\ results = <<>>
    /\ pf_pc = "loop"
    /\ response = <<>>

\* `except Exception as e: raise HTTPException(status_code=500, ...)`
Raise500 ==
    /\ pf_pc' = "http500"
    /\ UNCHANGED <<files, fi, store_calls, mail_tasks, results, response>>

\* The statements after the if/elif/else, with mr the value of media_results there:
\* store_in_elastic (which may raise), add_task, results.append.  Reading media_results
\* before any assignment raises UnboundLocalError.
StoreFile(mr, store_ok) ==
    IF mr = Unbound \/ ~store_ok
    THEN Raise500
    ELSE LET file_id == Len(store_calls) + 1
         IN  /\ store_calls' = Append(store_calls,
                    [filename |-> fi, transcript |-> mr.of, transcript_embeddings |-> mr.of])
             /\ mail_tasks' = Append(mail_tasks, [file_id |-> file_id, summary |-> mr.of])
             /\ results' = Append(results,
                    [filename |-> fi, summary |-> mr.of, file_id |-> file_id])
             /\ fi' = fi + 1
             /\ UNCHANGED <<files, pf_pc, response>>

\* a pass of the loop for an .mp3, .mp4 or .avi file
MediaFile ==
    /\ UNCHANGED dvars
    /\ pf_pc = "loop"
    /\ fi <= Len(files)
    /\ files[fi] \in ValidAudioVideoExtensions
    /\ \E media_ok, store_ok \in BOOLEAN :
          IF media_ok
          THEN /\ media_results' = [of |-> fi]
               /\ StoreFile([of |-> fi], store_ok)
          ELSE /\ Raise500
               /\ UNCHANGED media_results

\* a pass of the loop for a .pdf file: `pass`
PdfFile ==
    /\ UNCHANGED dvars
    /\ pf_pc = "loop"
    /\ fi <= Len(files)
    /\ files[fi] = ".pdf"
    /\ \E store_ok \in BOOLEAN : StoreFile(media_results, store_ok)
    /\ UNCHANGED media_results

\* any other extension: HTTPException(400), caught by the handler's own except clause
UnsupportedFile ==
    /\ UNCHANGED dvars
    /\ pf_pc = "loop"
    /\ fi <= Len(files)
    /\ files[fi] \notin ValidAudioVideoExtensions \cup {".pdf"}
    /\ Raise500
    /\ UNCHANGED media_results

\* return results
FileReturn ==
    /\ UNCHANGED dvars
    /\ pf_pc = "loop"
    /\ fi > Len(files)
    /\ pf_pc' = "returned"
    /\ response' = results
    /\ UNCHANGED <<files, fi, media_results, store_calls, mail_tasks, results>>

\* --------------------------------------------------------- specifications
\* no upload in progress
FIdle ==
    /\ files = <<>>
    /\ fi = 1
    /\ media_results = Unbound
    /\ store_calls = <<>>
    /\ mail_tasks = <<>>
    /\ results = <<>>
    /\ pf_pc = "idle"
    /\ response = <<>>

\* no alignment in progress
DIdle ==
    /\ transcription = <<>>
    /\ diarization = <<>>
    /\ tolerance = 0
    /\ pc = "idle"
    /\ ti = 1
    /\ unified_transcript = <<>>
    /\ origin = <<>>
    /\ attributed = <<>>
    /\ mi = 1
    /\ merged_transcript = <<>>
    /\ raised = "none"
    /\ result = <<>>

\* a call of map_transcription_to_diarization
Init == DInit /\ FIdle
Next == AlignStep \/ AlignDone \/ MergeStep \/ Return
Spec == Init /\ [][Next]_vars

\* a request to process_file
InitFile == FInit /\ DIdle
NextFile == MediaFile \/ PdfFile \/ UnsupportedFile \/ FileReturn
SpecFile == InitFile /\ [][NextFile]_vars
\* ------------------------------------------------------------------ claims
\* The list the first loop has produced: unified_transcript while the loop runs, its
\* copy afterwards (the second loop writes into the dicts of unified_transcript).
AlignOutput == IF pc = "align" THEN unified_transcript ELSE attributed
\* the transcription positions the first loop has dealt with
Processed == 1..(ti - 1)
AlignFinished == pc \in {"merge", "done"}
\* positions of AlignOutput appended for transcription[i]
EmittedFor(i) == {k \in 1..Len(AlignOutput) : origin[k][1] = i}

\* the two tests as the specification words them
PassesSoftTest(D, T, tol) == Max(D.start, T.start) - Min(D.end, T.end) < tol
NonDegenerate(D, T) == Max(D.start, T.start) < Min(D.end, T.end)
DiaIdx == 1..Len(diarization)

SoftOnly(i) ==
    /\ \E j \in DiaIdx : PassesSoftTest(diarization[j], transcription[i], tolerance)
    /\ \A j \in DiaIdx : ~NonDegenerate(diarization[j], transcription[i])

\* C1: a transcription segment with a soft-matching diarization segment but no
\* non-degenerate hard overlap contributes no segment at all to the output of the
\* alignment loop, neither a speaker-labelled one nor an UNKNOWN one.
C1_SilentDrop == \A i \in Processed : SoftOnly(i) => EmittedFor(i) = {}

\* C1 witness: the call returned, and some transcription segment was dropped this way
\* while another diarization segment missed it altogether.
C1_Witness ==
    /\ pc = "done"
    /\ \E i \in Processed :
          /\ SoftOnly(i)
          /\ EmittedFor(i) = {}
          /\ \E j \in DiaIdx : ~PassesSoftTest(diarization[j], transcription[i], tolerance)

\* C2: with an empty diarization list the alignment loop yields one UNKNOWN segment
\* per transcription segment, in order, with its start, end and text, and raises nothing.
C2_EmptyDiarization ==
    (AlignFinished /\ diarization = <<>>) =>
        /\ Len(attributed) = Len(transcription)
        /\ \A i \in 1..Len(transcription) :
              /\ i <= Len(attributed)
              /\ attributed[i] = [start |-> transcription[i].start,
                                  end |-> transcription[i].end,
                                  speaker |-> UNKNOWN,
                                  text |-> transcription[i].text]
        /\ raised = "none"

\* C2 witness: an alignment of two transcription segments against no diarization.
C2_Witness ==
    /\ AlignFinished
    /\ diarization = <<>>
    /\ Len(transcription) >= 2
    /\ Len(attributed) = Len(transcription)

InvalidSpan(seg) == seg.end < seg.start
HasInvalidSpan ==
    \/ \E i \in 1..Len(transcription) : InvalidSpan(transcription[i])
    \/ \E j \in DiaIdx : InvalidSpan(diarization[j])

\* C3: a call given a segment with end < start fails with InvalidSpanError and
\* produces no output.
C3_InvalidSpansFailClosed ==
    (pc = "done" /\ HasInvalidSpan) => (raised = "InvalidSpanError" /\ result = <<>>)
\* the maximal runs of equal speaker in the output of the alignment loop, by the
\* position of their first segment
RunStarts ==
    {k \in 1..Len(attributed) : k = 1 \/ attributed[k].speaker # attributed[k - 1].speaker}
RunStart(n) == CHOOSE k \in RunStarts : Cardinality({m \in RunStarts : m <= k}) = n
\* the positions of the run that begins at k
RunOf(k) ==
    {m \in k..Len(attributed) :
        \A q \in k..m : attributed[q].speaker = attributed[k].speaker}

\* C4: the returned turns are the maximal runs of consecutive equal-speaker segments,
\* one turn per run and in the order of the runs; consecutive turns differ in speaker;
\* no segments give no turns, and one segment gives one turn with its start and end.
C4_MergeMaximalRuns ==
    pc = "done" =>
        /\ Len(result) = Cardinality(RunStarts)
        /\ \A n \in 1..Len(result) :
              /\ n <= Cardinality(RunStarts)
              /\ merged_transcript[n] = RunStart(n)
              /\ result[n].speaker = attributed[RunStart(n)].speaker
              /\ result[n].start = attributed[RunStart(n)].start
        /\ \A n \in 1..(Len(result) - 1) : result[n].speaker # result[n + 1].speaker
        /\ (attributed = <<>> => result = <<>>)
        /\ (Len(attributed) = 1 =>
               /\ Len(result) = 1
               /\ result[1].start = attributed[1].start
               /\ result[1].end = attributed[1].end)

\* C4 witness: a returned transcript in which one speaker has two turns separated by a
\* turn of another speaker.
C4_Witness ==
    /\ pc = "done"
    /\ \E n \in 1..Len(result) :
          /\ n + 2 <= Len(result)
          /\ result[n].speaker = result[n + 2].speaker
          /\ result[n].speaker # result[n + 1].speaker

ValidSpan(seg) == 0 <= seg.start /\ seg.start <= seg.end
AllValidSpans ==
    /\ \A i \in 1..Len(transcription) : ValidSpan(transcription[i])
    /\ \A j \in DiaIdx : ValidSpan(diarization[j])

\* C5: for inputs whose spans all satisfy 0 <= start <= end, every returned turn has
\* end >= start and start >= 0 and covers the span of every segment merged into it.
C5_TurnTimeSpan ==
    (pc = "done" /\ AllValidSpans) =>
        \A n \in 1..Len(result) :
            /\ result[n].end >= result[n].start
            /\ result[n].start >= 0
            /\ \A m \in RunOf(merged_transcript[n]) :
                  /\ result[n].start <= attributed[m].start
                  /\ attributed[m].end <= result[n].end
\* C6: every speaker-labelled segment of the alignment output, appended for
\* transcription segment T and diarization segment D, starts at max(D.start, T.start),
\* ends at min(D.end, T.end) with end > start, lies inside T and D, and carries D's
\* speaker and T's whole text; and each D whose hard overlap with T is non-degenerate
\* gets exactly one such segment.
C6_HardOverlapEmission ==
    /\ \A k \in 1..Len(AlignOutput) :
          LET seg == AlignOutput[k]
              T == transcription[origin[k][1]]
          IN  /\ seg.speaker # UNKNOWN <=> origin[k][2] # 0
              /\ origin[k][2] # 0 =>
                    LET D == diarization[origin[k][2]]
                    IN  /\ seg.start = Max(D.start, T.start)
                        /\ seg.end = Min(D.end, T.end)
                        /\ seg.end > seg.start
                        /\ T.start <= seg.start /\ seg.end <= T.end
                        /\ D.start <= seg.start /\ seg.end <= D.end
                        /\ seg.speaker = D.speaker
                        /\ seg.text = T.text
    /\ \A i \in Processed : \A j \in DiaIdx :
          NonDegenerate(diarization[j], transcription[i]) =>
              Cardinality({k \in 1..Len(AlignOutput) : origin[k] = <<i, j>>}) = 1

\* C6 witness: a labelled segment strictly shorter than its transcription segment was
\* emitted, next to a soft-matching diarization segment that got none.
C6_Witness ==
    /\ AlignFinished
    /\ \E k \in 1..Len(attributed) :
          /\ origin[k][2] # 0
          /\ attributed[k].end - attributed[k].start
                < transcription[origin[k][1]].end - transcription[origin[k][1]].start
          /\ \E j \in DiaIdx :
                /\ PassesSoftTest(diarization[j], transcription[origin[k][1]], tolerance)
                /\ ~NonDegenerate(diarization[j], transcription[origin[k][1]])

LexLess(a, b) == a[1] < b[1] \/ (a[1] = b[1] /\ a[2] < b[2])

\* C7: the alignment output is grouped by transcription segment in the order of the
\* transcription list and, within one transcription segment, follows the order of the
\* diarization list, whatever the timestamps.
C7_OutputOrder ==
    /\ Len(origin) = Len(AlignOutput)
    /\ \A k \in 1..Len(AlignOutput) :
          /\ origin[k][1] \in Processed
          /\ AlignOutput[k].text = transcription[origin[k][1]].text
    /\ \A k \in 1..(Len(AlignOutput) - 1) : LexLess(origin[k], origin[k + 1])

\* C7 witness: a diarization list that is not in time order gave an output that is not
\* in time order.
C7_Witness ==
    /\ AlignFinished
    /\ \E k \in 1..(Len(attributed) - 1) :
          /\ origin[k][1] = origin[k + 1][1]
          /\ attributed[k].start > attributed[k + 1].start
          /\ attributed[k].end > attributed[k + 1].end

\* C8 as stated: whenever gap(D, T) <= 0, D is among T's candidates and T is not
\* attributed to UNKNOWN, for every tolerance >= 0, zero included.
C8_OverlapAlwaysAdmitted ==
    \A i \in Processed :
        LET ov == OverlappingSegments(diarization, transcription[i], tolerance)
        IN  \A j \in DiaIdx :
                Max(diarization[j].start, transcription[i].start)
                    - Min(diarization[j].end, transcription[i].end) <= 0
                => /\ \E c \in 1..Len(ov) : ov[c] = j
                   /\ \A k \in 1..Len(AlignOutput) :
                         origin[k][1] = i => AlignOutput[k].speaker # UNKNOWN

\* C8 amended: whenever gap(D, T) < 0, or gap(D, T) = 0 and the tolerance is positive,
\* D is among T's candidates and T is not attributed to UNKNOWN.
C8_OverlapAdmitted ==
    \A i \in Processed :
        LET ov == OverlappingSegments(diarization, transcription[i], tolerance)
        IN  \A j \in DiaIdx :
                LET gap == Max(diarization[j].start, transcription[i].start)
                              - Min(diarization[j].end, transcription[i].end)
                IN  (gap < 0 \/ (gap = 0 /\ tolerance > 0))
                    => /\ \E c \in 1..Len(ov) : ov[c] = j
                       /\ \A k \in 1..Len(AlignOutput) :
                             origin[k][1] = i => AlignOutput[k].speaker # UNKNOWN

\* C8 witness: a transcription segment that only touches a diarization segment
\* (gap = 0) under a positive tolerance, and is not attributed to UNKNOWN.
C8_Witness ==
    /\ AlignFinished
    /\ tolerance > 0
    /\ \E i \in Processed :
          /\ \E j \in DiaIdx :
                Max(diarization[j].start, transcription[i].start)
                    - Min(diarization[j].end, transcription[i].end) = 0
          /\ \A j \in DiaIdx : ~NonDegenerate(diarization[j], transcription[i])
          /\ ~\E k \in EmittedFor(i) : AlignOutput[k].speaker = UNKNOWN
Labelled(segs) == SelectSeq(segs, LAMBDA seg : seg.speaker # UNKNOWN)
UnknownCount(segs) == Len(SelectSeq(segs, LAMBDA seg : seg.speaker = UNKNOWN))
HasHardOverlap(T) == \E j \in DiaIdx : NonDegenerate(diarization[j], T)

\* C9: for fixed transcription and diarization, the speaker-labelled segments of the
\* alignment output are the same under every tolerance >= 0; only transcription
\* segments without a non-degenerate hard overlap can differ, each giving one UNKNOWN
\* segment or nothing; and a larger tolerance never gives more UNKNOWN segments.
C9_ToleranceOnlyUnknownOrDrop ==
    (pc = "merge" /\ mi = 1) =>
        /\ attributed = Align(transcription, diarization, tolerance)
        /\ \A t \in Tolerances :
              LET other == Align(transcription, diarization, t)
              IN  /\ Labelled(other) = Labelled(attributed)
                  /\ \A i \in 1..Len(transcription) :
                        IF HasHardOverlap(transcription[i])
                        THEN AlignSegment(transcription[i], diarization, t)
                                = AlignSegment(transcription[i], diarization, tolerance)
                        ELSE AlignSegment(transcription[i], diarization, t)
                                \in {<<>>, <<[start |-> transcription[i].start,
                                              end |-> transcription[i].end,
                                              speaker |-> UNKNOWN,
                                              text |-> transcription[i].text]>>}
                  /\ t >= tolerance => UnknownCount(other) <= UnknownCount(attributed)
                  /\ t <= tolerance => UnknownCount(other) >= UnknownCount(attributed)

\* C9 witness: an alignment with labelled segments whose output another tolerance
\* would change.
C9_Witness ==
    /\ pc = "merge" /\ mi = 1
    /\ Labelled(attributed) # <<>>
    /\ \E t \in Tolerances :
          /\ t > tolerance
          /\ UnknownCount(Align(transcription, diarization, t)) < UnknownCount(attributed)

\* C10: every call of store_in_elastic, every mail task and every returned entry for a
\* file carries the results process_audio_video_files computed from that same file.
C10_StoresOwnResults ==
    /\ \A c \in 1..Len(store_calls) :
          /\ store_calls[c].transcript = store_calls[c].filename
          /\ store_calls[c].transcript_embeddings = store_calls[c].filename
    /\ \A c \in 1..Len(results) : results[c].summary = results[c].filename
    /\ \A c \in 1..Len(mail_tasks) :
          \E r \in 1..Len(results) :
              /\ results[r].file_id = mail_tasks[c].file_id
              /\ mail_tasks[c].summary = results[r].filename
====
